---- MODULE Spec2Model ----
(***************************************************************************)
(* The /api/admin router of pharmacos-server (backend/routes/admin.js)     *)
(* behind the access guard wired in backend/server.js, over the Customer,  *)
(* Product, Order and OrderDetail collections of the document store.       *)
(*                                                                         *)
(* lastWrite is a history variable: for each customer, the request whose   *)
(* status update the store applied last (0: none yet).                     *)
(*                                                                         *)
(* Text values (names, search strings) are sequences of character codes;   *)
(* dates are day numbers since 1970-01-01 (UTC); a date given in a query   *)
(* string is a record [y, m, d] that new Date() converts to a day number.  *)
(***************************************************************************)
EXTENDS Integers, Sequences, FiniteSets

VARIABLES customers, products, orders, orderdetails, now, reqs, lastWrite

vars == <<customers, products, orders, orderdetails, now, reqs, lastWrite>>

----------------------------------------------------------------------------
(* Bounds of the model *)

\* concurrent requests in flight
MaxReq == 2
\* documents of the Customer collection
NCust == 2
\* documents of the Order collection
NOrders == 2
\* freely chosen documents of the OrderDetail collection
NDetails == 2
\* largest page / limit value a request asks for
MaxPage == 3

(* Program constants *)

DefaultPage == 1
DefaultLimit == 10
TopLimit == 10
LowStockThreshold == 10
WindowDays == 30

ReqIds == 1..MaxReq
CustIds == 1..NCust
OrderIds == 1..NOrders

\* an id of the right shape that resolves to no customer
AbsentCustId == NCust + 1

----------------------------------------------------------------------------
(* Generic helpers *)

Min(a, b) == IF a <= b THEN a ELSE b

Max(a, b) == IF a >= b THEN a ELSE b

Range(s) == {s[i] : i \in DOMAIN s}

RECURSIVE SumOver(_, _)
\* sum of f[x] over the finite set S
SumOver(S, f) ==
  IF S = {} THEN 0
  ELSE LET x == CHOOSE y \in S : TRUE IN f[x] + SumOver(S \ {x}, f)

RECURSIVE Insert(_, _, _)
\* x inserted into the sorted sequence s behind every element that does not
\* sort after it (before[<<a, b>>]: a sorts strictly before b), so that equal
\* keys keep their incoming order
Insert(x, s, before) ==
  IF s = <<>> THEN <<x>>
  ELSE IF before[<<x, Head(s)>>] THEN <<x>> \o s
  ELSE <<Head(s)>> \o Insert(x, Tail(s), before)

RECURSIVE SortStage(_, _)
\* the store's sort stage: s ordered by before, ties in incoming order
SortStage(s, before) ==
  IF s = <<>> THEN <<>>
  ELSE Insert(s[Len(s)], SortStage(SubSeq(s, 1, Len(s) - 1), before), before)

\* the store's skip stage
Skip(s, n) == IF n >= Len(s) THEN <<>> ELSE SubSeq(s, n + 1, Len(s))

\* the store's limit stage
Limit(s, n) == SubSeq(s, 1, Min(n, Len(s)))

Reverse(s) == [i \in 1..Len(s) |-> s[Len(s) + 1 - i]]

\* Math.ceil(a / b) for a >= 0, b >= 1
Ceil(a, b) == (a + b - 1) \div b

----------------------------------------------------------------------------
(* Text *)

\* one character folded to lower case ($options: "i")
ToLower(c) == IF c >= 65 /\ c <= 90 THEN c + 32 ELSE c

LowerText(t) == [i \in 1..Len(t) |-> ToLower(t[i])]

\* $regex with a plain pattern: pat occurs somewhere in t
Contains(t, pat) ==
  \E i \in 0..(Len(t) - Len(pat)) : SubSeq(t, i + 1, i + Len(pat)) = pat

\* { $regex: search, $options: "i" }
RegexMatchI(t, pat) == Contains(LowerText(t), LowerText(pat))

RECURSIVE TextLess(_, _)
\* binary (code point) order of two texts, as the store sorts strings
TextLess(a, b) ==
  IF b = <<>> THEN FALSE
  ELSE IF a = <<>> THEN TRUE
  ELSE IF Head(a) # Head(b) THEN Head(a) < Head(b)
  ELSE TextLess(Tail(a), Tail(b))

----------------------------------------------------------------------------
(* Dates *)

\* new Date("yyyy-mm-dd"): days since 1970-01-01 of a civil date
NewDate(dt) ==
  LET y   == IF dt.m <= 2 THEN dt.y - 1 ELSE dt.y
      era == y \div 400
      yoe == y - era * 400
      mp  == IF dt.m > 2 THEN dt.m - 3 ELSE dt.m + 9
      doy == (153 * mp + 2) \div 5 + dt.d - 1
      doe == yoe * 365 + yoe \div 4 - yoe \div 100 + doy
  IN era * 146097 + doe - 719468

\* the civil date [y, m, d] of a day number
CivilDate(days) ==
  LET z   == days + 719468
      era == z \div 146097
      doe == z - era * 146097
      yoe == (doe - doe \div 1460 + doe \div 36524 - doe \div 146096) \div 365
      doy == doe - (365 * yoe + yoe \div 4 - yoe \div 100)
      mp  == (5 * doy + 2) \div 153
      d   == doy - (153 * mp + 2) \div 5 + 1
      m   == IF mp < 10 THEN mp + 3 ELSE mp - 9
      y   == yoe + era * 400 + (IF m <= 2 THEN 1 ELSE 0)
  IN [y |-> y, m |-> m, d |-> d]

\* { $year: "$orderDate" }
YearOf(days) == CivilDate(days).y

\* { $month: "$orderDate" }
MonthOf(days) == CivilDate(days).m

----------------------------------------------------------------------------
(* Values *)

\* account roles (Account.role enum)
Roles == {"admin", "staff", "customer"}

\* bearer credentials a request may carry: none, one that does not verify,
\* or a verified one naming the account's role
Tokens ==
  {[kind |-> "missing", role |-> "admin"], [kind |-> "invalid", role |-> "admin"]}
    \cup {[kind |-> "valid", role |-> ro] : ro \in Roles}

\* roles the admin router lets through: authorize(["admin"])
RequiredRolesWithStaff == {"admin", "staff"}

RequiredRoles == {"admin"}

\* the statuses the Customer schema and the API document
ValidStatuses == {"active", "blocked"}

\* a stored field that holds null
NullValue == "<null>"

\* status values of a PATCH body: <<>> is a body without status
BodyStatuses == {<<>>, <<"active">>, <<"blocked">>, <<"banana">>}

\* a query parameter that is absent (also the empty string, which is falsy)
NoDate == [y |-> 0, m |-> 0, d |-> 0]

Ops == {"list", "detail", "sales", "products", "patch"}

NoArgs ==
  [id |-> 0, status |-> <<>>, search |-> <<>>, sortBy |-> <<>>, page |-> <<>>,
   limit |-> <<>>, startDate |-> NoDate, endDate |-> NoDate]

NoLocal == [none |-> TRUE]

NoResp == [code |-> 0, body |-> [none |-> TRUE]]

IdleReq ==
  [pc |-> "idle", op |-> "none", token |-> [kind |-> "missing", role |-> "admin"],
   user |-> "none", args |-> NoArgs, calls |-> 0, failed |-> FALSE,
   local |-> NoLocal, resp |-> NoResp, sent |-> 0]

\* the value of a query parameter, or its default when absent
Param(q, default) == IF q = <<>> THEN default ELSE q[1]

\* res.status(code).json({ message })
ErrorResp(code, msg) == [code |-> code, body |-> [message |-> msg]]

\* res.json(payload)
OkResp(payload) == [code |-> 200, body |-> payload]

\* the request sends its response and ends
Respond(q, resp) == [q EXCEPT !.pc = "done", !.resp = resp, !.sent = @ + 1]

\* a store call of the request fails: the catch block answers
Caught(q, code) ==
  Respond([q EXCEPT !.calls = @ + 1, !.failed = TRUE],
          ErrorResp(code, "store error"))

----------------------------------------------------------------------------
(* The access guard: app.use("/api/admin", authenticateToken, adminRoutes)
   and router.use(authorize(["admin"])) *)

\* a request arrives at /api/admin
Receive(r, op, token, args) ==
  /\ reqs[r].pc = "idle"
  /\ reqs' = [reqs EXCEPT ![r] =
       [IdleReq EXCEPT !.pc = "authenticate", !.op = op, !.token = token,
                       !.args = args]]
  /\ UNCHANGED <<customers, products, orders, orderdetails, now, lastWrite>>

\* authenticateToken: 401 without a verified credential, else the identity
AuthenticateToken(r) ==
  /\ reqs[r].pc = "authenticate"
  /\ reqs' = [reqs EXCEPT ![r] =
       IF reqs[r].token.kind = "valid"
       THEN [@ EXCEPT !.pc = "authorize", !.user = reqs[r].token.role]
       ELSE Respond(@, ErrorResp(401, "unauthenticated"))]
  /\ UNCHANGED <<customers, products, orders, orderdetails, now, lastWrite>>

\* authorize(roles): 403 unless the identity's role is one of roles
Authorize(r) ==
  /\ reqs[r].pc = "authorize"
  /\ reqs' = [reqs EXCEPT ![r] =
       IF reqs[r].user \in RequiredRoles
       THEN [@ EXCEPT !.pc = "handler"]
       ELSE Respond(@, ErrorResp(403, "forbidden"))]
  /\ UNCHANGED <<customers, products, orders, orderdetails, now, lastWrite>>

----------------------------------------------------------------------------
(* PATCH /customers/:id/status *)

\* the update document { status } as the store applies it: a status that is
\* undefined is either dropped from the update or written as null, by the
\* version of the object mapper
UpdateDoc(status, omitUndefined) ==
  IF status # <<>> THEN [set |-> TRUE, value |-> status[1]]
  ELSE IF omitUndefined THEN [set |-> FALSE, value |-> NullValue]
  ELSE [set |-> TRUE, value |-> NullValue]

\* the update applied to every document of the collection
UpdatedCustomersAll(cs, id, upd) ==
  IF id \in DOMAIN cs /\ upd.set
  THEN [c \in DOMAIN cs |-> [cs[c] EXCEPT !.status = upd.value]]
  ELSE cs

\* the update document taken as a replacement of the stored document
UpdatedCustomersReplace(cs, id, upd) ==
  IF id \in DOMAIN cs /\ upd.set
  THEN [cs EXCEPT ![id] =
          [_id |-> id, name |-> <<>>, email |-> <<>>, status |-> upd.value]]
  ELSE cs

\* the Customer collection after findByIdAndUpdate(id, upd): the status of
\* the one document with that id is set, in one atomic step of the store
UpdatedCustomers(cs, id, upd) ==
  IF id \in DOMAIN cs /\ upd.set
  THEN [cs EXCEPT ![id] = [@ EXCEPT !.status = upd.value]]
  ELSE cs

\* { new: false }: the document as it was before the update
ReturnedDocOld(before, after) == before

\* { new: true }: findByIdAndUpdate returns the document after the update
ReturnedDoc(before, after) == after

\* the handler: one findByIdAndUpdate, then 404, the record, or 400 on a throw
PatchStatus(r) ==
  /\ reqs[r].pc = "handler"
  /\ reqs[r].op = "patch"
  /\ \E ok \in BOOLEAN, omitUndefined \in BOOLEAN :
       LET q     == reqs[r]
           id    == q.args.id
           upd   == UpdateDoc(q.args.status, omitUndefined)
           after == UpdatedCustomers(customers, id, upd)
       IN IF ~ok
          THEN /\ reqs' = [reqs EXCEPT ![r] = Caught(q, 400)]
               /\ UNCHANGED <<customers, lastWrite>>
          ELSE /\ customers' = after
               /\ lastWrite' = IF id \in DOMAIN customers /\ upd.set
                                THEN [lastWrite EXCEPT ![id] = r]
                                ELSE lastWrite
               /\ reqs' = [reqs EXCEPT ![r] =
                    IF id \notin DOMAIN customers
                    THEN Respond([q EXCEPT !.calls = @ + 1],
                                 ErrorResp(404, "Customer not found"))
                    ELSE Respond([q EXCEPT !.calls = @ + 1],
                           OkResp(ReturnedDoc(customers[id], after[id])))]
  /\ UNCHANGED <<products, orders, orderdetails, now>>

----------------------------------------------------------------------------
(* GET /customers *)

\* the filter: empty without a search, else name or email matches it
MatchesFilter(c, search) ==
  \/ search = <<>>
  \/ RegexMatchI(c.name, search)
  \/ RegexMatchI(c.email, search)

\* sortBy.split(":") gives [field, order]; order is descending only when it
\* is exactly "desc"
SortDirection(sortBy) ==
  IF Len(sortBy) >= 2 /\ sortBy[2] = "desc" THEN "desc" ELSE "asc"

\* the value a document is sorted by: a field it lacks compares equal
SortKey(c, sortBy) ==
  IF sortBy = <<>> THEN <<>>
  ELSE IF sortBy[1] = "name" THEN c.name
  ELSE IF sortBy[1] = "email" THEN c.email
  ELSE <<>>

\* a sorts strictly before b under sort[field] = 1 or -1
CustomerBefore(docs, sortBy) ==
  [p \in docs \X docs |->
     IF SortDirection(sortBy) = "desc"
     THEN TextLess(SortKey(p[2], sortBy), SortKey(p[1], sortBy))
     ELSE TextLess(SortKey(p[1], sortBy), SortKey(p[2], sortBy))]

\* the collection in its natural order
NaturalCustomers(cs) == [i \in 1..Cardinality(DOMAIN cs) |-> cs[i]]

\* page taken as an offset of page * limit
SkipCountFromPage(page, limit) == page * limit

\* (page - 1) * limit
SkipCount(page, limit) == (page - 1) * limit

\* Customer.find(filter).sort(sort).skip((page - 1) * limit).limit(limit)
FindCustomers(cs, search, sortBy, page, limit) ==
  LET matched == SelectSeq(NaturalCustomers(cs),
                           LAMBDA c : MatchesFilter(c, search))
      sorted  == SortStage(matched, CustomerBefore(Range(matched), sortBy))
  IN Limit(Skip(sorted, SkipCount(page, limit)), limit)

\* Customer.countDocuments(filter)
CountCustomers(cs, search) ==
  Cardinality({id \in DOMAIN cs : MatchesFilter(cs[id], search)})

\* first store call of the list handler
ListFind(r) ==
  /\ reqs[r].pc = "handler"
  /\ reqs[r].op = "list"
  /\ \E ok \in BOOLEAN :
       LET q     == reqs[r]
           page  == Param(q.args.page, DefaultPage)
           limit == Param(q.args.limit, DefaultLimit)
       IN reqs' = [reqs EXCEPT ![r] =
            IF ~ok THEN Caught(q, 500)
            ELSE [q EXCEPT !.pc = "second", !.calls = @ + 1,
                    !.local = [customers |->
                      FindCustomers(customers, q.args.search, q.args.sortBy,
                                    page, limit)]]]
  /\ UNCHANGED <<customers, products, orders, orderdetails, now, lastWrite>>

\* second store call of the list handler, and the response
ListCount(r) ==
  /\ reqs[r].pc = "second"
  /\ reqs[r].op = "list"
  /\ \E ok \in BOOLEAN :
       LET q     == reqs[r]
           page  == Param(q.args.page, DefaultPage)
           limit == Param(q.args.limit, DefaultLimit)
           total == CountCustomers(customers, q.args.search)
       IN reqs' = [reqs EXCEPT ![r] =
            IF ~ok THEN Caught(q, 500)
            ELSE Respond([q EXCEPT !.calls = @ + 1],
                   OkResp([customers   |-> q.local.customers,
                           totalPages  |-> Ceil(total, limit),
                           currentPage |-> page,
                           total       |-> total]))]
  /\ UNCHANGED <<customers, products, orders, orderdetails, now, lastWrite>>

----------------------------------------------------------------------------
(* GET /customers/:id *)

NaturalOrders(os) == [i \in 1..Cardinality(DOMAIN os) |-> os[i]]

\* .populate("staffId", "name")
PopulateStaff(o) ==
  [o EXCEPT !.staffId = [_id |-> o.staffId, name |-> <<115, o.staffId>>]]

\* a sorts strictly before b under { orderDate: -1 }
OrderDateDesc(docs) == [p \in docs \X docs |-> p[1].orderDate > p[2].orderDate]

\* Order.find({ customerId }).sort({ orderDate: -1 }).populate("staffId", "name")
FindOrdersOf(os, customerId) ==
  LET mine   == SelectSeq(NaturalOrders(os),
                          LAMBDA o : o.customerId = customerId)
      sorted == SortStage(mine, OrderDateDesc(Range(mine)))
  IN [i \in 1..Len(sorted) |-> PopulateStaff(sorted[i])]

\* Customer.findById, then 404 when there is no such customer
DetailFind(r) ==
  /\ reqs[r].pc = "handler"
  /\ reqs[r].op = "detail"
  /\ \E ok \in BOOLEAN :
       LET q == reqs[r]
       IN reqs' = [reqs EXCEPT ![r] =
            IF ~ok THEN Caught(q, 500)
            ELSE IF q.args.id \notin DOMAIN customers
            THEN Respond([q EXCEPT !.calls = @ + 1],
                         ErrorResp(404, "Customer not found"))
            ELSE [q EXCEPT !.pc = "second", !.calls = @ + 1,
                    !.local = [customer |-> customers[q.args.id]]]]
  /\ UNCHANGED <<customers, products, orders, orderdetails, now, lastWrite>>

\* Order.find of the customer's orders, and the response
DetailOrders(r) ==
  /\ reqs[r].pc = "second"
  /\ reqs[r].op = "detail"
  /\ \E ok \in BOOLEAN :
       LET q == reqs[r]
       IN reqs' = [reqs EXCEPT ![r] =
            IF ~ok THEN Caught(q, 500)
            ELSE Respond([q EXCEPT !.calls = @ + 1],
                   OkResp([customer |-> q.local.customer,
                           orders   |-> FindOrdersOf(orders,
                                          q.local.customer._id)]))]
  /\ UNCHANGED <<customers, products, orders, orderdetails, now, lastWrite>>

----------------------------------------------------------------------------
(* GET /analytics/sales *)

\* a query parameter that is present and not empty
Truthy(dt) == dt # NoDate

\* matchStage without the status condition
MatchesSalesAnyStatus(o, startDate, endDate) ==
  Truthy(startDate) /\ Truthy(endDate)
    => o.orderDate >= NewDate(startDate) /\ o.orderDate <= NewDate(endDate)

\* matchStage: status "completed", and the date range when both ends are given
MatchesSales(o, startDate, endDate) ==
  /\ o.status = "completed"
  /\ Truthy(startDate) /\ Truthy(endDate)
       => o.orderDate >= NewDate(startDate) /\ o.orderDate <= NewDate(endDate)

\* { $match: matchStage } over the Order collection
MatchStage(os, startDate, endDate) ==
  SelectSeq(NaturalOrders(os), LAMBDA o : MatchesSales(o, startDate, endDate))

\* one order added to the month groups built so far
AddToMonthGroups(groups, o) ==
  LET key == [year |-> YearOf(o.orderDate), month |-> MonthOf(o.orderDate)]
  IN IF \E i \in DOMAIN groups : groups[i]._id = key
     THEN LET i == CHOOSE j \in DOMAIN groups : groups[j]._id = key
          IN [groups EXCEPT ![i] =
                [@ EXCEPT !.totalSales = @ + o.totalAmount,
                          !.orderCount = @ + 1]]
     ELSE Append(groups, [_id |-> key, totalSales |-> o.totalAmount,
                          orderCount |-> 1])

RECURSIVE GroupByMonth(_)
\* { $group: { _id: { year, month }, totalSales, orderCount } }
GroupByMonth(s) ==
  IF s = <<>> THEN <<>>
  ELSE AddToMonthGroups(GroupByMonth(SubSeq(s, 1, Len(s) - 1)), s[Len(s)])

\* a sorts strictly before b under { "_id.year": 1, "_id.month": 1 }
YearMonthAsc(docs) ==
  [p \in docs \X docs |->
     \/ p[1]._id.year < p[2]._id.year
     \/ p[1]._id.year = p[2]._id.year /\ p[1]._id.month < p[2]._id.month]

\* the salesAnalytics pipeline
SalesByMonthPipeline(os, startDate, endDate) ==
  LET groups == GroupByMonth(MatchStage(os, startDate, endDate))
  IN SortStage(groups, YearMonthAsc(Range(groups)))

RECURSIVE LookupUnwindItems(_, _)
\* { $lookup: orderdetails by orderId as items }, { $unwind: "$items" }:
\* one row per line item of each order, an order without items giving none
LookupUnwindItems(s, details) ==
  IF s = <<>> THEN <<>>
  ELSE SelectSeq(details, LAMBDA d : d.orderId = Head(s)._id)
         \o LookupUnwindItems(Tail(s), details)

\* one line item added to the product groups built so far
AddToProductGroups(groups, d) ==
  IF \E i \in DOMAIN groups : groups[i]._id = d.productId
  THEN LET i == CHOOSE j \in DOMAIN groups : groups[j]._id = d.productId
       IN [groups EXCEPT ![i] =
             [@ EXCEPT !.totalQuantity = @ + d.quantity,
                       !.totalRevenue = @ + d.quantity * d.unitPrice]]
  ELSE Append(groups, [_id |-> d.productId, totalQuantity |-> d.quantity,
                       totalRevenue |-> d.quantity * d.unitPrice])

RECURSIVE GroupByProduct(_)
\* { $group: { _id: "$items.productId", totalQuantity, totalRevenue } }
GroupByProduct(s) ==
  IF s = <<>> THEN <<>>
  ELSE AddToProductGroups(GroupByProduct(SubSeq(s, 1, Len(s) - 1)), s[Len(s)])

\* a sorts strictly before b under { totalQuantity: -1 }
QuantityDesc(docs) ==
  [p \in docs \X docs |-> p[1].totalQuantity > p[2].totalQuantity]

\* { $lookup: products by _id as product }, { $unwind: "$product" }: the
\* product document attached, a group whose product does not exist dropped
LookupUnwindProduct(groups, ps) ==
  LET kept == SelectSeq(groups, LAMBDA g : g._id \in DOMAIN ps)
  IN [i \in 1..Len(kept) |->
        [product |-> ps[kept[i]._id], _id |-> kept[i]._id,
         totalQuantity |-> kept[i].totalQuantity,
         totalRevenue |-> kept[i].totalRevenue]]

\* the cut taken before the sort
LimitThenSort(groups) ==
  LET cut == Limit(groups, TopLimit)
  IN SortStage(cut, QuantityDesc(Range(cut)))

\* { $sort: { totalQuantity: -1 } }, { $limit: 10 }
SortThenLimit(groups) ==
  Limit(SortStage(groups, QuantityDesc(Range(groups))), TopLimit)

\* the topProducts pipeline; the group stage emits its groups in an order
\* the store does not promise (here: as first seen, or the reverse)
TopProductsPipeline(os, details, ps, startDate, endDate, reversed) ==
  LET rows   == LookupUnwindItems(MatchStage(os, startDate, endDate), details)
      groups == GroupByProduct(rows)
      emitted == IF reversed THEN Reverse(groups) ELSE groups
  IN LookupUnwindProduct(SortThenLimit(emitted), ps)

\* first aggregation of the sales handler
SalesByMonth(r) ==
  /\ reqs[r].pc = "handler"
  /\ reqs[r].op = "sales"
  /\ \E ok \in BOOLEAN :
       LET q == reqs[r]
       IN reqs' = [reqs EXCEPT ![r] =
            IF ~ok THEN Caught(q, 500)
            ELSE [q EXCEPT !.pc = "second", !.calls = @ + 1,
                    !.local = [salesAnalytics |->
                      SalesByMonthPipeline(orders, q.args.startDate,
                                           q.args.endDate)]]]
  /\ UNCHANGED <<customers, products, orders, orderdetails, now, lastWrite>>

\* second aggregation of the sales handler, and the response
SalesTopProducts(r) ==
  /\ reqs[r].pc = "second"
  /\ reqs[r].op = "sales"
  /\ \E ok \in BOOLEAN, reversed \in BOOLEAN :
       LET q == reqs[r]
       IN reqs' = [reqs EXCEPT ![r] =
            IF ~ok THEN Caught(q, 500)
            ELSE Respond([q EXCEPT !.calls = @ + 1],
                   OkResp([salesByMonth |-> q.local.salesAnalytics,
                           topSellingProducts |->
                             TopProductsPipeline(orders, orderdetails, products,
                               q.args.startDate, q.args.endDate, reversed)]))]
  /\ UNCHANGED <<customers, products, orders, orderdetails, now, lastWrite>>

----------------------------------------------------------------------------
(* GET /analytics/products *)

RECURSIVE AscendingIds(_)
\* the ids of a collection in ascending order
AscendingIds(S) ==
  IF S = {} THEN <<>>
  ELSE LET least == CHOOSE x \in S : \A y \in S : x <= y
       IN <<least>> \o AscendingIds(S \ {least})

\* the Product collection in its natural order
NaturalProducts(ps) ==
  LET ids == AscendingIds(DOMAIN ps) IN [i \in 1..Len(ids) |-> ps[ids[i]]]

\* .populate("brandId", "name")
PopulateBrand(p) ==
  [p EXCEPT !.brandId = [_id |-> p.brandId, name |-> <<98, p.brandId>>]]

\* Product.find(filter).populate("brandId", "name") for the products in keep
FindProducts(ps, keep) ==
  LET found == SelectSeq(NaturalProducts(ps), LAMBDA p : p._id \in keep)
  IN [i \in 1..Len(found) |-> PopulateBrand(found[i])]

\* Product.find({ stockQuantity: { $lt: 10 } })
LowStockProducts(ps) ==
  FindProducts(ps, {id \in DOMAIN ps : ps[id].stockQuantity < LowStockThreshold})

\* the window start taken one day late
ThirtyDaysAgoLate(today) == today - WindowDays + 1

\* thirtyDaysAgo.setDate(thirtyDaysAgo.getDate() - 30)
ThirtyDaysAgo(today) == today - WindowDays

\* $match of the productSales pipeline
MatchesWindow(o, since) == o.orderDate >= since /\ o.status = "completed"

\* one line item added to the product sales groups built so far
AddToSalesGroups(groups, d) ==
  IF \E i \in DOMAIN groups : groups[i]._id = d.productId
  THEN LET i == CHOOSE j \in DOMAIN groups : groups[j]._id = d.productId
       IN [groups EXCEPT ![i] = [@ EXCEPT !.totalSales = @ + d.quantity]]
  ELSE Append(groups, [_id |-> d.productId, totalSales |-> d.quantity])

RECURSIVE GroupSales(_)
\* { $group: { _id: "$items.productId", totalSales } }
GroupSales(s) ==
  IF s = <<>> THEN <<>>
  ELSE AddToSalesGroups(GroupSales(SubSeq(s, 1, Len(s) - 1)), s[Len(s)])

\* the productSales pipeline
ProductSalesPipeline(os, details, since) ==
  GroupSales(LookupUnwindItems(
    SelectSeq(NaturalOrders(os), LAMBDA o : MatchesWindow(o, since)), details))

\* productSales.map((p) => p._id)
SoldProductIds(productSales) == {productSales[i]._id : i \in DOMAIN productSales}

\* { _id: { $nin: soldProductIds } }
NotInSold(ps, sold) == {id \in DOMAIN ps : id \notin sold}

\* Product.find of the low stock products; then the window start is read
\* from the clock
ProductsLowStock(r) ==
  /\ reqs[r].pc = "handler"
  /\ reqs[r].op = "products"
  /\ \E ok \in BOOLEAN :
       LET q == reqs[r]
       IN reqs' = [reqs EXCEPT ![r] =
            IF ~ok THEN Caught(q, 500)
            ELSE [q EXCEPT !.pc = "second", !.calls = @ + 1,
                    !.local = [lowStockProducts |-> LowStockProducts(products),
                               thirtyDaysAgo |-> ThirtyDaysAgo(now),
                               productSales |-> <<>>]]]
  /\ UNCHANGED <<customers, products, orders, orderdetails, now, lastWrite>>

\* the productSales aggregation
ProductsSales(r) ==
  /\ reqs[r].pc = "second"
  /\ reqs[r].op = "products"
  /\ \E ok \in BOOLEAN :
       LET q == reqs[r]
       IN reqs' = [reqs EXCEPT ![r] =
            IF ~ok THEN Caught(q, 500)
            ELSE [q EXCEPT !.pc = "third", !.calls = @ + 1,
                    !.local.productSales =
                      ProductSalesPipeline(orders, orderdetails,
                                           q.local.thirtyDaysAgo)]]
  /\ UNCHANGED <<customers, products, orders, orderdetails, now, lastWrite>>

\* Product.find of the products not sold, and the response
ProductsNoSales(r) ==
  /\ reqs[r].pc = "third"
  /\ reqs[r].op = "products"
  /\ \E ok \in BOOLEAN :
       LET q    == reqs[r]
           sold == SoldProductIds(q.local.productSales)
       IN reqs' = [reqs EXCEPT ![r] =
            IF ~ok THEN Caught(q, 500)
            ELSE Respond([q EXCEPT !.calls = @ + 1],
                   OkResp([lowStockProducts |-> q.local.lowStockProducts,
                           noSalesProducts |->
                             FindProducts(products, NotInSold(products, sold)),
                           productSales |-> q.local.productSales]))]
  /\ UNCHANGED <<customers, products, orders, orderdetails, now, lastWrite>>

----------------------------------------------------------------------------
(* Store contents *)

\* "Jo" j@, "an" A@, "Jo" b@, "A" o@
ProfilePool ==
  << [name |-> <<74, 111>>, email |-> <<106, 64>>],
     [name |-> <<97, 110>>, email |-> <<65, 64>>],
     [name |-> <<74, 111>>, email |-> <<98, 64>>],
     [name |-> <<65>>,      email |-> <<111, 64>>] >>

CustomerDoc(id, profile, status) ==
  [_id |-> id, name |-> profile.name, email |-> profile.email, status |-> status]

\* every customer as registration leaves it
FixedCustomers ==
  [c \in CustIds |->
     CustomerDoc(c, ProfilePool[((c - 1) % Len(ProfilePool)) + 1], "active")]

\* ids of the products in the catalogue; 0 is the id of a product that was
\* deleted and that line items may still name
ProductIds == 1..(TopLimit + 1)

FixedProducts ==
  [p \in ProductIds |->
     [_id |-> p, name |-> <<112, p>>, stockQuantity |-> 3 * p, brandId |-> 1]]

Today == NewDate([y |-> 2024, m |-> 3, d |-> 15])

OrderDoc(id, status, date, amount) ==
  [_id |-> id, customerId |-> ((id - 1) % NCust) + 1, staffId |-> 1,
   orderDate |-> date, totalAmount |-> amount, status |-> status]

\* completed on 2024-01-15, pending on 2024-01-15, completed on 2024-02-01
FixedOrderPool ==
  << [status |-> "completed", date |-> NewDate([y |-> 2024, m |-> 1, d |-> 15])],
     [status |-> "pending",   date |-> NewDate([y |-> 2024, m |-> 1, d |-> 15])],
     [status |-> "completed", date |-> NewDate([y |-> 2024, m |-> 2, d |-> 1])] >>

FixedOrders ==
  [i \in OrderIds |->
     LET o == FixedOrderPool[((i - 1) % Len(FixedOrderPool)) + 1]
     IN OrderDoc(i, o.status, o.date, 100 * i)]

DetailDoc(orderId, productId, quantity, unitPrice) ==
  [orderId |-> orderId, productId |-> productId, quantity |-> quantity,
   unitPrice |-> unitPrice]

\* order 1 with one line item of product 1, three at 10
FixedDetails == << DetailDoc(1, 1, 3, 10) >>

\* line items of order 1 for one product short of the top-products limit
BulkDetails == [i \in 1..(TopLimit - 1) |-> DetailDoc(1, i + 2, 2, 5)]

AllIdle == [r \in ReqIds |-> IdleReq]

----------------------------------------------------------------------------
(* Requests *)

PatchArgs ==
  {[NoArgs EXCEPT !.id = id, !.status = st] :
     id \in CustIds \cup {AbsentCustId}, st \in BodyStatuses}

DetailArgs == {[NoArgs EXCEPT !.id = id] : id \in {1, AbsentCustId}}

\* "jo", "A", "@"
SearchTexts == {<<>>, <<106, 111>>, <<65>>}

SortBys ==
  {<<>>, <<"name">>, <<"name", "desc">>, <<"email", "asc">>, <<"phone", "desc">>}

PageValues == {<<>>} \cup {<<n>> : n \in 1..MaxPage}

ListArgs ==
  {[NoArgs EXCEPT !.search = se, !.sortBy = so, !.page = pg, !.limit = li] :
     se \in SearchTexts, so \in SortBys, pg \in PageValues, li \in PageValues}

RangeEnds ==
  {NoDate, [y |-> 2024, m |-> 1, d |-> 1], [y |-> 2024, m |-> 1, d |-> 15]}

SalesArgs ==
  {[NoArgs EXCEPT !.startDate = sd, !.endDate = ed] :
     sd \in RangeEnds, ed \in RangeEnds}

\* the requests of the specification of the whole router
ArgsOf(op) ==
  IF op = "patch" THEN PatchArgs
  ELSE IF op = "detail" THEN DetailArgs
  ELSE {NoArgs}

\* the requests of the specification of concurrent requests: every PATCH
\* body carries a status
ConcurrentArgsOf(op) ==
  IF op = "patch" THEN {a \in PatchArgs : a.status # <<>>}
  ELSE IF op = "detail" THEN DetailArgs
  ELSE {NoArgs}

AdminToken == [kind |-> "valid", role |-> "admin"]

---------------------------------------------------------------------------------------------------------------------------------------------------
(* One request of any kind, with any credential, through guard and handler *)

Init ==
  /\ customers = FixedCustomers
  /\ products = FixedProducts
  /\ orders = FixedOrders
  /\ orderdetails = FixedDetails
  /\ now = Today
  /\ reqs = AllIdle
  /\ lastWrite = [c \in CustIds |-> 0]

\* a step of the handler of request r
HandlerStep(r) ==
  \/ ListFind(r)
  \/ ListCount(r)
  \/ DetailFind(r)
  \/ DetailOrders(r)
  \/ SalesByMonth(r)
  \/ SalesTopProducts(r)
  \/ ProductsLowStock(r)
  \/ ProductsSales(r)
  \/ ProductsNoSales(r)
  \/ PatchStatus(r)

Next ==
  \/ \E op \in Ops, token \in Tokens :
       \E args \in ArgsOf(op) : Receive(1, op, token, args)
  \/ AuthenticateToken(1)
  \/ Authorize(1)
  \/ HandlerStep(1)

Spec == Init /\ [][Next]_vars

----------------------------------------------------------------------------
(* Concurrent requests of an administrator; the requests are numbered in
   the order they arrive *)

ConcurrentNext ==
  \E r \in ReqIds :
    \/ /\ IF r = 1 THEN TRUE ELSE reqs[r - 1].pc # "idle"
       /\ \E op \in Ops : \E args \in ConcurrentArgsOf(op) :
            Receive(r, op, AdminToken, args)
    \/ AuthenticateToken(r)
    \/ Authorize(r)
    \/ HandlerStep(r)

ConcurrentSpec == Init /\ [][ConcurrentNext]_vars

----------------------------------------------------------------------------
(* The customer list over any customers and any query *)

ListInit ==
  /\ customers \in
       {[c \in CustIds |-> CustomerDoc(c, ProfilePool[pr[c]], "active")] :
          pr \in [CustIds -> 1..Len(ProfilePool)]}
  /\ products = FixedProducts
  /\ orders = FixedOrders
  /\ orderdetails = FixedDetails
  /\ now = Today
  /\ reqs = AllIdle
  /\ lastWrite = [c \in CustIds |-> 0]

ListNext ==
  \/ \E args \in ListArgs : Receive(1, "list", AdminToken, args)
  \/ AuthenticateToken(1)
  \/ Authorize(1)
  \/ ListFind(1)
  \/ ListCount(1)

ListSpec == ListInit /\ [][ListNext]_vars

----------------------------------------------------------------------------
(* Sales by month over any orders and any date range *)

\* 2023-12-31, 2024-01-01, 2024-01-15, 2024-02-01
OrderDates ==
  {NewDate([y |-> 2023, m |-> 12, d |-> 31]), NewDate([y |-> 2024, m |-> 1, d |-> 1]),
   NewDate([y |-> 2024, m |-> 1, d |-> 15]), NewDate([y |-> 2024, m |-> 2, d |-> 1])}

OrderStatuses == {"completed", "pending"}

SalesInit ==
  /\ customers = FixedCustomers
  /\ products = FixedProducts
  /\ orders \in
       {[i \in OrderIds |-> OrderDoc(i, st[i], dt[i], am[i])] :
          st \in [OrderIds -> OrderStatuses], dt \in [OrderIds -> OrderDates],
          am \in [OrderIds -> {50, 100}]}
  /\ orderdetails = FixedDetails
  /\ now = Today
  /\ reqs = AllIdle
  /\ lastWrite = [c \in CustIds |-> 0]

SalesNext ==
  \/ \E args \in SalesArgs : Receive(1, "sales", AdminToken, args)
  \/ AuthenticateToken(1)
  \/ Authorize(1)
  \/ SalesByMonth(1)
  \/ SalesTopProducts(1)

SalesSpec == SalesInit /\ [][SalesNext]_vars

----------------------------------------------------------------------------
(* Top selling products over any line items *)

\* a line item that may be of any order and of product 1, 2 or the deleted
\* product 0
FreeDetails ==
  {DetailDoc(o, p, qp[1], qp[2]) :
     o \in OrderIds, p \in {0, 1, 2}, qp \in {<<1, 10>>, <<3, 15>>}}

TopArgs ==
  {NoArgs,
   [NoArgs EXCEPT !.startDate = [y |-> 2024, m |-> 1, d |-> 1],
                  !.endDate = [y |-> 2024, m |-> 1, d |-> 15]],
   [NoArgs EXCEPT !.startDate = [y |-> 2024, m |-> 1, d |-> 1],
                  !.endDate = [y |-> 2024, m |-> 1, d |-> 1]]}

TopInit ==
  /\ customers = FixedCustomers
  /\ products = FixedProducts
  /\ orders = FixedOrders
  /\ orderdetails \in {BulkDetails \o free : free \in [1..NDetails -> FreeDetails]}
  /\ now = Today
  /\ reqs = AllIdle
  /\ lastWrite = [c \in CustIds |-> 0]

TopNext ==
  \/ \E args \in TopArgs : Receive(1, "sales", AdminToken, args)
  \/ AuthenticateToken(1)
  \/ Authorize(1)
  \/ SalesByMonth(1)
  \/ SalesTopProducts(1)

TopSpec == TopInit /\ [][TopNext]_vars

----------------------------------------------------------------------------
(* Product analytics over any recent orders and line items *)

\* completed 31 and 30 days ago and today, pending today
WindowOrders ==
  {[status |-> "completed", date |-> Today - WindowDays - 1],
   [status |-> "completed", date |-> Today - WindowDays],
   [status |-> "completed", date |-> Today],
   [status |-> "pending", date |-> Today]}

WindowDetails ==
  {DetailDoc(o, p, 1, 10) : o \in OrderIds, p \in {0, 1, 2}}

ProductsInit ==
  /\ customers = FixedCustomers
  /\ products = FixedProducts
  /\ orders \in
       {[i \in OrderIds |-> OrderDoc(i, w[i].status, w[i].date, 100)] :
          w \in [OrderIds -> WindowOrders]}
  /\ orderdetails \in [1..NDetails -> WindowDetails]
  /\ now = Today
  /\ reqs = AllIdle
  /\ lastWrite = [c \in CustIds |-> 0]

ProductsNext ==
  \/ Receive(1, "products", AdminToken, NoArgs)
  \/ AuthenticateToken(1)
  \/ Authorize(1)
  \/ ProductsLowStock(1)
  \/ ProductsSales(1)
  \/ ProductsNoSales(1)

ProductsSpec == ProductsInit /\ [][ProductsNext]_vars

----------------------------------------------------------------------------
(* Properties *)

Done(r) == reqs[r].pc = "done"

IsAdmin(q) == q.token.kind = "valid" /\ q.token.role = "admin"

\* the request has reached its handler: it stands in it or has called the store
InHandler(q) == q.pc \in {"handler", "second", "third"} \/ q.calls > 0

StoreAsInit ==
  /\ customers = FixedCustomers
  /\ products = FixedProducts
  /\ orders = FixedOrders
  /\ orderdetails = FixedDetails

\* C1: a request of any of the five operations reaches its handler, and so
\* the store, only with a verified credential whose role is admin; without
\* a verified credential it ends with 401, with role staff or customer with
\* 403, and in both cases it has made no store call and the store is as it
\* was.
C1_GuardBeforeHandler ==
  \A r \in ReqIds :
    LET q == reqs[r]
    IN /\ InHandler(q) => IsAdmin(q)
       /\ q.pc # "idle" /\ ~IsAdmin(q)
            => StoreAsInit /\ q.calls = 0 /\ q.resp.code # 200
       /\ Done(r) /\ q.token.kind # "valid" => q.resp.code = 401
       /\ Done(r) /\ q.token.kind = "valid" /\ q.token.role # "admin"
            => q.resp.code = 403

\* a staff member's status update has been refused
C1_Witness ==
  \E r \in ReqIds :
    /\ Done(r)
    /\ reqs[r].op = "patch"
    /\ reqs[r].token = [kind |-> "valid", role |-> "staff"]
    /\ reqs[r].resp.code = 403

\* C2: a status update with target active or blocked whose store call
\* succeeds: on an existing customer the stored status is the target and the
\* response is that customer's record carrying the target; on an id that
\* resolves to no customer the response is 404 and no customer has changed.
C2_StatusUpdate ==
  \A r \in ReqIds :
    LET q  == reqs[r]
        id == q.args.id
    IN Done(r) /\ q.op = "patch" /\ IsAdmin(q) /\ ~q.failed
         /\ q.args.status # <<>> /\ q.args.status[1] \in ValidStatuses
       => IF id \in CustIds
          THEN /\ q.resp.code = 200
               /\ q.resp.body = customers[id]
               /\ q.resp.body.status = q.args.status[1]
               /\ customers =
                    [FixedCustomers EXCEPT ![id].status = q.args.status[1]]
          ELSE /\ q.resp.code = 404
               /\ customers = FixedCustomers

\* customer 1 has been blocked and the response says so
C2_Witness ==
  \E r \in ReqIds :
    /\ Done(r)
    /\ reqs[r].op = "patch"
    /\ reqs[r].args.id = 1
    /\ reqs[r].args.status = <<"blocked">>
    /\ reqs[r].resp.code = 200
    /\ reqs[r].resp.body.status = "blocked"
    /\ FixedCustomers[1].status = "active"

\* C3: a status update whose target is not active or blocked, or is missing,
\* ends with a validation error (400) and leaves the customers unchanged, so
\* that every stored status is active or blocked.
C3_InvalidStatusRejected ==
  /\ \A r \in ReqIds :
       LET q == reqs[r]
       IN Done(r) /\ q.op = "patch" /\ IsAdmin(q)
            /\ (q.args.status = <<>> \/ q.args.status[1] \notin ValidStatuses)
          => q.resp.code = 400 /\ customers = FixedCustomers
  /\ \A c \in CustIds : customers[c].status \in ValidStatuses

\* store calls the handler of an operation makes when none fails
StoreCallsOf(op) ==
  IF op = "products" THEN 3 ELSE IF op = "patch" THEN 1 ELSE 2

\* C8: every request that has ended has sent exactly one response; when a
\* store call of it failed, the response is the error object with status
\* 500 and no store call followed the failed one; a success payload is sent
\* only when every store call succeeded.
C8_StoreFailureIsInternalError ==
  \A r \in ReqIds :
    LET q == reqs[r]
    IN /\ Done(r) => q.sent = 1
       /\ ~Done(r) => q.sent = 0
       /\ q.calls <= StoreCallsOf(q.op)
       /\ Done(r) /\ q.failed
            => q.resp = ErrorResp(500, "store error")
       /\ Done(r) /\ q.resp.code = 200
            => ~q.failed /\ q.calls = StoreCallsOf(q.op)

----------------------------------------------------------------------------
(* The customer list *)

\* the customers the filter of a request with this search selects
MatchingCustomers(search) ==
  {customers[c] : c \in {d \in CustIds : MatchesFilter(customers[d], search)}}

\* a comes strictly before b in the order the request asks for
ListedBefore(a, b, sortBy) ==
  IF SortDirection(sortBy) = "desc"
  THEN TextLess(SortKey(b, sortBy), SortKey(a, sortBy))
  ELSE TextLess(SortKey(a, sortBy), SortKey(b, sortBy))

\* C4: a customer list request with page >= 1 and limit >= 1 (page 1 and
\* limit 10 when not given) that succeeds returns total = the number of
\* customers matching the filter, totalPages = ceil(total / limit), the page
\* it was asked for, and as customers the slice of the matching customers
\* in the requested order that starts at offset (page - 1) * limit: at most
\* limit of them, exactly min(limit, max(0, total - offset)), each matching
\* and none twice, in order, the i-th having at most offset + i - 1 matching
\* customers strictly before it and at most total - offset - i strictly
\* after it.
C4_ListPagination ==
  \A r \in ReqIds :
    LET q      == reqs[r]
        page   == IF q.args.page = <<>> THEN 1 ELSE q.args.page[1]
        limit  == IF q.args.limit = <<>> THEN 10 ELSE q.args.limit[1]
        all    == MatchingCustomers(q.args.search)
        total  == Cardinality(all)
        offset == (page - 1) * limit
        got    == q.resp.body.customers
    IN Done(r) /\ q.op = "list" /\ q.resp.code = 200
       => /\ page >= 1 /\ limit >= 1
          /\ q.resp.body.total = total
          /\ q.resp.body.currentPage = page
          /\ q.resp.body.totalPages * limit >= total
          /\ (q.resp.body.totalPages - 1) * limit < total
          /\ Len(got) <= limit
          /\ Len(got) = Min(limit, Max(0, total - offset))
          /\ \A i \in DOMAIN got : got[i] \in all
          /\ \A i, j \in DOMAIN got : i # j => got[i] # got[j]
          /\ \A i, j \in DOMAIN got :
               i < j => ~ListedBefore(got[j], got[i], q.args.sortBy)
          /\ \A i \in DOMAIN got :
               /\ Cardinality({c \in all : ListedBefore(c, got[i], q.args.sortBy)})
                    <= offset + i - 1
               /\ Cardinality({c \in all : ListedBefore(got[i], c, q.args.sortBy)})
                    <= total - offset - i

\* the second page of one customer each, out of two pages or more, sorted
\* by name, has been returned
C4_Witness ==
  \E r \in ReqIds :
    /\ Done(r)
    /\ reqs[r].op = "list"
    /\ reqs[r].resp.code = 200
    /\ reqs[r].args.page = <<2>>
    /\ reqs[r].args.limit = <<1>>
    /\ reqs[r].args.sortBy = <<"name", "desc">>
    /\ reqs[r].resp.body.totalPages >= 2
    /\ Len(reqs[r].resp.body.customers) = 1

----------------------------------------------------------------------------
(* Sales analytics *)

\* both ends of the date range are given
RangeGiven(a) == a.startDate # NoDate /\ a.endDate # NoDate

\* the calendar months of the order dates the specifications use
CalendarMonths ==
  {[year |-> 2023, month |-> 12], [year |-> 2024, month |-> 1],
   [year |-> 2024, month |-> 2], [year |-> 2024, month |-> 3]}

\* the calendar month a day falls in, found by searching for the civil date
\* that new Date() maps to it
CalendarMonthOf(day) ==
  CHOOSE ym \in CalendarMonths :
    \E d \in 1..31 : NewDate([y |-> ym.year, m |-> ym.month, d |-> d]) = day

\* the orders a sales request with arguments a is about: completed, and
\* dated within [startDate, endDate] when the range is given
SalesOrders(a) ==
  {i \in OrderIds :
     /\ orders[i].status = "completed"
     /\ RangeGiven(a) => /\ NewDate(a.startDate) <= orders[i].orderDate
                         /\ orders[i].orderDate <= NewDate(a.endDate)}

TotalAmountOf == [i \in OrderIds |-> orders[i].totalAmount]

\* C5: in a sales analytics result, salesByMonth has one group per calendar
\* month (year, month) in which a matching order falls and no other group,
\* no two groups for the same month, in ascending order of (year, month);
\* a group's orderCount is the number of matching orders of its month and
\* its totalSales the sum of their totalAmount; the totalSales of all groups
\* add up to the totalAmount of all matching orders.  The matching orders
\* are the completed orders with startDate <= orderDate <= endDate when
\* both are given, and every completed order otherwise.
C5_SalesByMonth ==
  \A r \in ReqIds :
    LET q        == reqs[r]
        g        == q.resp.body.salesByMonth
        matching == SalesOrders(q.args)
        inMonth(ym) ==
          {i \in matching : CalendarMonthOf(orders[i].orderDate) = ym}
    IN Done(r) /\ q.op = "sales" /\ q.resp.code = 200
       => /\ \A i, j \in DOMAIN g : i # j => g[i]._id # g[j]._id
          /\ {g[i]._id : i \in DOMAIN g}
               = {CalendarMonthOf(orders[i].orderDate) : i \in matching}
          /\ \A i \in DOMAIN g :
               /\ g[i].orderCount = Cardinality(inMonth(g[i]._id))
               /\ g[i].totalSales = SumOver(inMonth(g[i]._id), TotalAmountOf)
          /\ \A i, j \in DOMAIN g :
               i < j => \/ g[i]._id.year < g[j]._id.year
                        \/ /\ g[i]._id.year = g[j]._id.year
                           /\ g[i]._id.month < g[j]._id.month
          /\ SumOver(DOMAIN g, [i \in DOMAIN g |-> g[i].totalSales])
               = SumOver(matching, TotalAmountOf)

\* a range was given, a completed order on its first day is counted, and
\* another order is left out
C5_Witness ==
  \E r \in ReqIds :
    /\ Done(r)
    /\ reqs[r].op = "sales"
    /\ reqs[r].resp.code = 200
    /\ RangeGiven(reqs[r].args)
    /\ Len(reqs[r].resp.body.salesByMonth) = 1
    /\ \E i \in SalesOrders(reqs[r].args) :
         orders[i].orderDate = NewDate(reqs[r].args.startDate)
    /\ SalesOrders(reqs[r].args) # OrderIds

\* the line items (by position in the collection) of the matching orders
SalesItems(a) ==
  {k \in DOMAIN orderdetails : orderdetails[k].orderId \in SalesOrders(a)}

\* the products the matching line items name
SoldIn(a) == {orderdetails[k].productId : k \in SalesItems(a)}

QuantityOf == [k \in DOMAIN orderdetails |-> orderdetails[k].quantity]

RevenueOf ==
  [k \in DOMAIN orderdetails |->
     orderdetails[k].quantity * orderdetails[k].unitPrice]

\* C6: in a sales analytics result, topSellingProducts has at most 10
\* entries, no two for the same product, in order of non-increasing
\* totalQuantity; an entry's totalQuantity is the sum of quantity and its
\* totalRevenue the sum of quantity * unitPrice over the line items of its
\* product in the matching orders; every entry is among the 10 products of
\* highest total quantity (fewer than 10 products have a strictly higher
\* one), and an existing product with matching line items is missing only
\* when at least 10 other products have a total quantity at least as high.
C6_TopSellingProducts ==
  \A r \in ReqIds :
    LET q     == reqs[r]
        t     == q.resp.body.topSellingProducts
        items == SalesItems(q.args)
        sold  == {orderdetails[k].productId : k \in items}
        of    == [p \in sold |-> {k \in items : orderdetails[k].productId = p}]
        qty   == [p \in sold |-> SumOver(of[p], QuantityOf)]
        rev   == [p \in sold |-> SumOver(of[p], RevenueOf)]
    IN Done(r) /\ q.op = "sales" /\ q.resp.code = 200
       => /\ Len(t) <= 10
          /\ \A i, j \in DOMAIN t : i # j => t[i]._id # t[j]._id
          /\ \A i, j \in DOMAIN t :
               i < j => t[i].totalQuantity >= t[j].totalQuantity
          /\ \A i \in DOMAIN t :
               /\ t[i]._id \in sold
               /\ t[i]._id \in DOMAIN products
               /\ t[i].product = products[t[i]._id]
               /\ t[i].totalQuantity = qty[t[i]._id]
               /\ t[i].totalRevenue = rev[t[i]._id]
               /\ Cardinality({p \in sold : qty[p] > qty[t[i]._id]}) < 10
          /\ \A p \in sold \cap DOMAIN products :
               (\A i \in DOMAIN t : t[i]._id # p)
                 => Cardinality({o \in sold \ {p} : qty[o] >= qty[p]}) >= 10

\* more than 10 products were sold, 10 are listed, and the first of them was
\* sold three times
C6_Witness ==
  \E r \in ReqIds :
    /\ Done(r)
    /\ reqs[r].op = "sales"
    /\ reqs[r].resp.code = 200
    /\ Cardinality(SoldIn(reqs[r].args)) > 10
    /\ Len(reqs[r].resp.body.topSellingProducts) = 10
    /\ reqs[r].resp.body.topSellingProducts[1].totalQuantity = 3

----------------------------------------------------------------------------
(* Product analytics *)

\* the products named by a line item of a completed order of the last 30
\* days
SoldRecently ==
  {orderdetails[k].productId :
     k \in {j \in DOMAIN orderdetails :
              /\ orderdetails[j].orderId \in OrderIds
              /\ orders[orderdetails[j].orderId].status = "completed"
              /\ orders[orderdetails[j].orderId].orderDate >= now - 30}}

\* C7: in a product analytics result, a product is in noSalesProducts if
\* and only if it exists and no line item of a completed order dated
\* now - 30 days or later names it: noSalesProducts and the products sold
\* in that window are disjoint, together with the existing ones among the
\* latter they are all products, and no product is listed twice.
C7_NoSalesProducts ==
  \A r \in ReqIds :
    LET q  == reqs[r]
        ns == q.resp.body.noSalesProducts
        nsIds == {ns[i]._id : i \in DOMAIN ns}
    IN Done(r) /\ q.op = "products" /\ q.resp.code = 200
       => /\ nsIds \cap SoldRecently = {}
          /\ nsIds \cup (SoldRecently \cap DOMAIN products) = DOMAIN products
          /\ \A i, j \in DOMAIN ns : i # j => ns[i]._id # ns[j]._id
          /\ \A p \in DOMAIN products : p \in nsIds <=> p \notin SoldRecently

\* product 1 was sold exactly 30 days ago and is not listed, product 2 was
\* sold only outside the window and is listed
C7_Witness ==
  \E r \in ReqIds :
    /\ Done(r)
    /\ reqs[r].op = "products"
    /\ reqs[r].resp.code = 200
    /\ \E k \in DOMAIN orderdetails :
         /\ orderdetails[k].productId = 1
         /\ orders[orderdetails[k].orderId].status = "completed"
         /\ orders[orderdetails[k].orderId].orderDate = now - 30
    /\ \E k \in DOMAIN orderdetails : orderdetails[k].productId = 2
    /\ 1 \in SoldRecently
    /\ 2 \notin SoldRecently
    /\ \E i \in DOMAIN reqs[r].resp.body.noSalesProducts :
         reqs[r].resp.body.noSalesProducts[i]._id = 2
    /\ \A i \in DOMAIN reqs[r].resp.body.noSalesProducts :
         reqs[r].resp.body.noSalesProducts[i]._id # 1

----------------------------------------------------------------------------
(* Concurrent status updates *)

\* the status a status update asks for
TargetOf(q) == q.args.status[1]

\* C9: status updates running concurrently are applied one at a time: a
\* customer no update was applied to is as it was; otherwise its record
\* differs from the original only in the status, which is the target of
\* the update applied last to it, a finished update for that customer; and
\* the response of every successful update carries the target of that
\* update.
C9_LastWriteWins ==
  /\ \A c \in CustIds :
       IF lastWrite[c] = 0
       THEN customers[c] = FixedCustomers[c]
       ELSE LET w == reqs[lastWrite[c]]
            IN /\ w.pc = "done" /\ w.op = "patch" /\ w.args.id = c
               /\ w.resp.code = 200
               /\ customers[c] = [FixedCustomers[c] EXCEPT !.status = TargetOf(w)]
  /\ \A r \in ReqIds :
       LET q == reqs[r]
       IN Done(r) /\ q.op = "patch" /\ q.resp.code = 200
          => /\ q.resp.body._id = q.args.id
             /\ q.resp.body.status = TargetOf(q)

\* two updates of customer 1 with different targets have both succeeded,
\* and the one that arrived first was applied last
C9_Witness ==
  /\ Done(1) /\ Done(2)
  /\ reqs[1].op = "patch" /\ reqs[2].op = "patch"
  /\ reqs[1].args.id = 1 /\ reqs[2].args.id = 1
  /\ reqs[1].resp.code = 200 /\ reqs[2].resp.code = 200
  /\ reqs[1].args.status = <<"blocked">>
  /\ reqs[2].args.status = <<"active">>
  /\ lastWrite[1] = 1
  /\ customers[1].status = "blocked"

ReadOps == {"list", "detail", "sales", "products"}

\* C10: no step changes the Product, Order or OrderDetail collection or the
\* set of customers; a step of a read operation, succeeding or failing,
\* changes no customer; a step that changes a customer is the store call of
\* a status update and changes only the status of the customer its id names.
C10_OnlyStatusUpdateWrites ==
  [][/\ products' = products
     /\ orders' = orders
     /\ orderdetails' = orderdetails
     /\ DOMAIN customers' = DOMAIN customers
     /\ \A r \in ReqIds :
          reqs'[r] # reqs[r] /\ reqs[r].op \in ReadOps => customers' = customers
     /\ customers' # customers
          => \E r \in ReqIds :
               /\ reqs[r].op = "patch"
               /\ reqs[r].pc = "handler"
               /\ reqs'[r].pc = "done"
               /\ reqs[r].args.id \in CustIds
               /\ customers' =
                    [customers EXCEPT ![reqs[r].args.id].status =
                       customers'[reqs[r].args.id].status]]_vars

\* a read request has failed, a status update has blocked customer 2, and
\* nothing else in the store has changed
C10_Witness ==
  \E r1, r2 \in ReqIds :
    /\ Done(r1) /\ Done(r2)
    /\ reqs[r1].op \in ReadOps
    /\ reqs[r1].failed
    /\ reqs[r2].op = "patch"
    /\ reqs[r2].args.id = 2
    /\ reqs[r2].resp.code = 200
    /\ customers = [FixedCustomers EXCEPT ![2].status = "blocked"]

====
